---- MODULE Spec2Model ----
(***************************************************************************)
(* Model of training/data_augmente/data_augmente.py: the path resolver,    *)
(* the normalisation of an opened image, the augmentation post-processing  *)
(* and the walker/writer loop of augment_and_save_images.                  *)
(*                                                                         *)
(* A string (a file name, a path) is a sequence of tokens; "/" is the      *)
(* path separator, and a file name is its stem tokens followed by its      *)
(* extension token, e.g. <<"aug_", "0", "_", "img1", ".jpg">>.             *)
(***************************************************************************)
EXTENDS Integers, Sequences, FiniteSets, TLC

VARIABLES
    script,         \* os.path.abspath(__file__)
    dirs,           \* the directories of the filesystem (set of paths)
    files,          \* the regular files of the filesystem: path -> content
    unreadable,     \* directories whose scandir() raises OSError
    src0,           \* the files under data_dir before the run (never assigned)
    stack,          \* os.walk: directories still to be listed
    subdir,         \* loop variable of line 59
    todo,           \* the rest of `files` of line 59, in scandir order
    file,           \* loop variable of line 60
    img_array,      \* the normalised original of the current image
    augmented_img,  \* the last augmented array (line 92)
    i,              \* loop variable of line 87
    pc,             \* position of the script
    log             \* history: the filesystem calls and the print, in order

vars == <<script, dirs, files, unreadable, src0, stack, subdir, todo, file,
          img_array, augmented_img, i, pc, log>>

\* ------------------------------------------------------------ configuration

IMAGE_SIZE == 256
AUGMENTATION_FACTOR == 2

\* Largest number of files in the source tree of a run.
MaxFiles == 2

\* ------------------------------------------------------------ os.path

sep == "/"

Seps(p) == {k \in 1..Len(p) : p[k] = sep}

Max(S) == CHOOSE m \in S : \A n \in S : n <= m

\* posixpath.dirname: the head up to the last separator, trailing separators
\* stripped unless the head is all separators.
dirname(p) ==
    IF Seps(p) = {} THEN <<>>
    ELSE LET head == SubSeq(p, 1, Max(Seps(p)))
         IN  IF \A k \in 1..Len(head) : head[k] = sep THEN head
             ELSE SubSeq(head, 1, Len(head) - 1)

\* posixpath.basename: what follows the last separator.
basename(p) ==
    IF Seps(p) = {} THEN p ELSE SubSeq(p, Max(Seps(p)) + 1, Len(p))

\* posixpath.join of two parts.
join(a, b) ==
    IF Len(b) > 0 /\ b[1] = sep THEN b
    ELSE IF Len(a) = 0 \/ a[Len(a)] = sep THEN a \o b
    ELSE a \o <<sep>> \o b

\* str.endswith for a tuple of one-token suffixes.
endswith(s, suffixes) == Len(s) > 0 /\ s[Len(s)] \in suffixes

\* p is d or lies below d.
IsUnder(p, d) ==
    \/ p = d
    \/ /\ Len(p) > Len(d)
       /\ SubSeq(p, 1, Len(d)) = d
       /\ (d[Len(d)] = sep \/ p[Len(d) + 1] = sep)

\* The proper ancestors of a path (os.makedirs creates the missing ones).
Ancestors(p) == {dirname(SubSeq(p, 1, k)) : k \in Seps(p) \ {1}} \cup {dirname(p)}

\* ------------------------------------------------------------ path resolver

current_dir(f) == dirname(f)

parent_dir(f) == dirname(current_dir(f))

data_dir(f) == join(join(parent_dir(f), <<"data">>), <<"base_data">>)

output_dir_repo(f) == join(parent_dir(f), <<"data_augmente_data">>)

output_dir_nested(f) == join(data_dir(f), <<"data_augmente_data">>)

output_dir(f) == join(dirname(data_dir(f)), <<"data_augmente_data">>)

\* ------------------------------------------------------------ images (PIL)

\* An image: its PIL mode, its size (width, height), the band values of one
\* representative pixel, how many resampling passes and how many passes of the
\* augmentation pipeline produced its pixel data.
Image(mode, w, h, px) ==
    [mode |-> mode, size |-> <<w, h>>, px |-> px, resampled |-> 0, augs |-> 0]

\* An array (numpy / tensor): shape, dtype and the values of the same pixel.
\* A float32 value is written in half units (9 stands for 4.5).
NoArray == [shape |-> <<>>, dtype |-> "none", px |-> <<>>, resampled |-> 0, augs |-> 0]

\* Image.resize: a copy when the size is already the requested one, else a
\* resampled image of the requested size.
resize_always(img, size) ==
    [img EXCEPT !.size = size, !.resampled = @ + 1]

resize(img, size) ==
    IF img.size = size THEN img
    ELSE [img EXCEPT !.size = size, !.resampled = @ + 1]

\* Image.convert('RGB') of an RGBA image: the alpha band is dropped.
convert_RGB(img) ==
    [img EXCEPT !.mode = "RGB", !.px = SubSeq(@, 1, 3)]

\* np.array(img): (height, width) for the one-band modes, (height, width,
\* bands) for the others; uint16 for mode I;16, uint8 for the rest.
np_array(img) ==
    LET hw == <<img.size[2], img.size[1]>>
    IN  [shape     |-> IF img.mode \in {"L", "P", "I;16"} THEN hw
                       ELSE hw \o <<Len(img.px)>>,
         dtype     |-> IF img.mode = "I;16" THEN "uint16" ELSE "uint8",
         px        |-> img.px,
         resampled |-> img.resampled,
         augs      |-> img.augs]

\* Lines 72-78: np.stack of three copies, np.repeat of the one channel, or
\* the first three of four channels; an array of any other shape is kept.
coerce(a) ==
    IF Len(a.shape) = 2
    THEN [a EXCEPT !.shape = @ \o <<3>>, !.px = <<a.px[1], a.px[1], a.px[1]>>]
    ELSE IF a.shape[3] = 1
    THEN [a EXCEPT !.shape[3] = 3, !.px = <<a.px[1], a.px[1], a.px[1]>>]
    ELSE IF a.shape[3] = 4
    THEN [a EXCEPT !.shape[3] = 3, !.px = SubSeq(@, 1, 3)]
    ELSE a

\* Lines 64-78 on an opened image.
normalize(img) ==
    LET resized == resize(img, <<IMAGE_SIZE, IMAGE_SIZE>>)
        rgb     == IF resized.mode = "RGBA" THEN convert_RGB(resized) ELSE resized
    IN  coerce(np_array(rgb))

\* Image.fromarray: the mode PIL's type map gives the array, "TypeError" when
\* the map has no entry for its shape and dtype.
fromarray_mode(a) ==
    IF a.dtype = "uint8" /\ Len(a.shape) = 2 THEN "L"
    ELSE IF a.dtype = "uint16" /\ Len(a.shape) = 2 THEN "I;16"
    ELSE IF a.dtype = "uint8" /\ Len(a.shape) = 3 /\ a.shape[3] = 2 THEN "LA"
    ELSE IF a.dtype = "uint8" /\ Len(a.shape) = 3 /\ a.shape[3] = 3 THEN "RGB"
    ELSE IF a.dtype = "uint8" /\ Len(a.shape) = 3 /\ a.shape[3] = 4 THEN "RGBA"
    ELSE "TypeError"

fromarray(a) ==
    [mode |-> fromarray_mode(a), size |-> <<a.shape[2], a.shape[1]>>,
     px |-> a.px, resampled |-> a.resampled, augs |-> a.augs]

\* Image.save: the format follows the extension of the path; the JPEG writer
\* has no raw mode for LA, RGBA or I;16.
save_format(path) ==
    IF endswith(path, {".jpg", ".jpeg", ".JPG"}) THEN "JPEG"
    ELSE IF endswith(path, {".png"}) THEN "PNG"
    ELSE "ValueError"

can_save(fmt, mode) ==
    \/ fmt = "JPEG" /\ mode \in {"L", "RGB", "CMYK"}
    \/ fmt = "PNG" /\ mode \in {"L", "LA", "P", "RGB", "RGBA", "I;16"}

\* ------------------------------------------------------------ augmentation

\* What the pipeline of lines 31-36 can return for one pixel, in half units
\* (RandomContrast clips to [0, 255]); the first channels of one of these.
RawPixels == {<<0, 7, 9, 10>>, <<510, 8, 11, 2>>}

expand_dims(a) == [a EXCEPT !.shape = <<1>> \o @]

squeeze(a) == [a EXCEPT !.shape = SelectSeq(@, LAMBDA d : d # 1)]

\* data_augmentation(batch, training=True): same shape, float32, new pixel
\* values, one more augmentation pass.
data_augmentation(batch, raw) ==
    [batch EXCEPT !.dtype = "float32",
                  !.px = SubSeq(raw, 1, Len(batch.px)),
                  !.augs = @ + 1]

\* .astype("uint8") of a float32 array in [0, 255]: truncation.
astype_uint8(a) ==
    [a EXCEPT !.dtype = "uint8",
              !.px = [k \in DOMAIN a.px |-> (a.px[k] \div 2) % 256]]

\* Line 92: np.where(a < 5, 0, a).
suppress_below4(a) ==
    [a EXCEPT !.px = [k \in DOMAIN a.px |-> IF a.px[k] < 4 THEN 0 ELSE a.px[k]]]

suppress(a) ==
    [a EXCEPT !.px = [k \in DOMAIN a.px |-> IF a.px[k] < 5 THEN 0 ELSE a.px[k]]]

\* The argument of the pipeline on line 88.
pipeline_input_chained(original, previous, n) ==
    IF n = 0 THEN original ELSE previous

pipeline_input(original, previous, n) == original

\* Line 97: f"aug_{i}_{file}".
aug_name(n, f) == <<"aug_", ToString(n), "_">> \o f

\* ------------------------------------------------------------ filesystem

EXTENSIONS == {".jpg", ".jpeg", ".png"}

NoImage == Image("none", 0, 0, <<>>)

ImageFile(img) == [kind |-> "image", img |-> img]

CorruptFile == [kind |-> "corrupt", img |-> NoImage]

TextFile == [kind |-> "text", img |-> NoImage]

PartialFile == [kind |-> "partial", img |-> NoImage]

\* The files a source tree is drawn from: the directory below data_dir, the
\* file name and the content. A directory named "locked" cannot be listed.
Pool ==
    { [dir |-> <<"glioma">>, name |-> <<"img1", ".jpg">>,
       content |-> ImageFile(Image("L", 512, 512, <<7>>))],
      [dir |-> <<"glioma">>, name |-> <<"aug_", "0", "_", "img1", ".jpg">>,
       content |-> ImageFile(Image("RGB", 256, 256, <<10, 20, 30>>))],
      [dir |-> <<"scans", "/", "glioma">>, name |-> <<"img1", ".jpg">>,
       content |-> ImageFile(Image("RGBA", 300, 200, <<10, 20, 30, 128>>))],
      [dir |-> <<>>, name |-> <<"img2", ".png">>,
       content |-> ImageFile(Image("P", 256, 256, <<3>>))],
      [dir |-> <<"glioma">>, name |-> <<"img3", ".JPG">>,
       content |-> ImageFile(Image("RGB", 256, 256, <<10, 20, 30>>))],
      [dir |-> <<"notumor">>, name |-> <<"img4", ".png">>,
       content |-> ImageFile(Image("LA", 256, 256, <<7, 255>>))],
      [dir |-> <<"notumor">>, name |-> <<"img4", ".jpg">>,
       content |-> ImageFile(Image("LA", 128, 128, <<7, 255>>))],
      [dir |-> <<"notumor">>, name |-> <<"img5", ".png">>,
       content |-> ImageFile(Image("I;16", 256, 256, <<1000>>))],
      [dir |-> <<"notumor">>, name |-> <<"img6", ".png">>,
       content |-> CorruptFile],
      [dir |-> <<"notumor">>, name |-> <<"notes", ".txt">>,
       content |-> TextFile],
      [dir |-> <<"glioma">>, name |-> <<"img8", ".jpeg">>,
       content |-> ImageFile(Image("CMYK", 256, 256, <<1, 2, 3, 4>>))],
      [dir |-> <<"locked">>, name |-> <<"img7", ".png">>,
       content |-> ImageFile(Image("RGB", 256, 256, <<10, 20, 30>>))] }

Scripts ==
    { <<"/", "repo", "/", "training", "/", "data_augmente", "/", "data_augmente.py">>,
      <<"/", "data_augmente.py">> }

SrcDir(f, e) == IF e.dir = <<>> THEN data_dir(f) ELSE join(data_dir(f), e.dir)

SrcPath(f, e) == join(SrcDir(f, e), e.name)

Trees == {t \in SUBSET Pool : Cardinality(t) <= MaxFiles}

Orders(S) ==
    {s \in [1..Cardinality(S) -> S] : \A a, b \in 1..Cardinality(S) : a # b => s[a] # s[b]}

exists(p) == p \in dirs \/ p \in DOMAIN files

\* create_dir, lines 45-46: the directories after the call.
create_dir(dir_path) ==
    IF exists(dir_path) THEN dirs ELSE dirs \cup {dir_path} \cup Ancestors(dir_path)

Event(op, path, arr, pre) == [op |-> op, path |-> path, arr |-> arr, pre |-> pre]

LogCreate(dir_path) ==
    IF exists(dir_path) THEN log
    ELSE Append(log, Event("mkdir", dir_path, NoArray, NoArray))

label_dir == join(output_dir(script), basename(subdir))

Put(path, content) ==
    [p \in DOMAIN files \cup {path} |-> IF p = path THEN content ELSE files[p]]

\* Image.fromarray(arr).save(path), lines 84 and 94-97. fromarray raises
\* before the file is touched; a writer that rejects the mode raises after
\* the file was opened for writing, and a file that save created is then
\* removed or left behind, depending on the PIL version.
Save(arr, pre, path, ok_pc) ==
    LET im  == fromarray(arr)
        fmt == save_format(path)
    IN  IF im.mode = "TypeError"
        THEN /\ files' = files
             /\ log' = Append(log, Event("raise", path, arr, pre))
             /\ pc' = "aborted"
        ELSE IF ~can_save(fmt, im.mode)
        THEN /\ \E left \in BOOLEAN :
                    files' = IF left \/ path \in DOMAIN files
                             THEN Put(path, PartialFile) ELSE files
             /\ log' = Append(log, Event("raise", path, arr, pre))
             /\ pc' = "aborted"
        ELSE /\ files' = Put(path, ImageFile(im))
             /\ log' = Append(log, Event("write", path, arr, pre))
             /\ pc' = ok_pc

\* ------------------------------------------------------------ the script

Init ==
    /\ script \in Scripts
    /\ \E t \in Trees, present \in BOOLEAN :
          /\ t # {} => present
          /\ files = [p \in {SrcPath(script, e) : e \in t} |->
                        (CHOOSE e \in t : SrcPath(script, e) = p).content]
          /\ dirs = {<<sep>>, current_dir(script)} \cup Ancestors(current_dir(script))
                    \cup (IF present
                          THEN {data_dir(script)} \cup Ancestors(data_dir(script))
                          ELSE {})
                    \cup UNION {{SrcDir(script, e)} \cup Ancestors(SrcDir(script, e)) : e \in t}
    /\ unreadable = {d \in dirs : basename(d) = <<"locked">>}
    /\ src0 = files
    /\ stack = <<>>
    /\ subdir = <<>>
    /\ todo = <<>>
    /\ file = <<>>
    /\ img_array = NoArray
    /\ augmented_img = NoArray
    /\ i = 0
    /\ pc = "start"
    /\ log = <<>>

\* Line 57, and the call of os.walk on line 59.
Start ==
    /\ pc = "start"
    /\ dirs' = create_dir(output_dir(script))
    /\ log' = LogCreate(output_dir(script))
    /\ stack' = <<data_dir(script)>>
    /\ pc' = "walk"
    /\ UNCHANGED <<script, files, unreadable, src0, subdir, todo, file,
                   img_array, augmented_img, i>>

\* os.walk, top down: the next directory is listed, in any order; a
\* directory whose listing fails is skipped (onerror is None).
WalkDir ==
    /\ pc = "walk"
    /\ stack # <<>>
    /\ LET top == Head(stack)
       IN  IF top \notin dirs \/ top \in unreadable
           THEN /\ stack' = Tail(stack)
                /\ UNCHANGED <<subdir, todo, pc>>
           ELSE /\ \E fs \in Orders({basename(p) : p \in {q \in DOMAIN files : dirname(q) = top}}),
                      ds \in Orders({d \in dirs : dirname(d) = top /\ d # top}) :
                        /\ todo' = fs
                        /\ stack' = ds \o Tail(stack)
                /\ subdir' = top
                /\ pc' = "files"
    /\ UNCHANGED <<script, dirs, files, unreadable, src0, file, img_array,
                   augmented_img, i, log>>

\* Line 60 with the test of line 61.
NextFile ==
    /\ pc = "files"
    /\ todo # <<>>
    /\ file' = Head(todo)
    /\ todo' = Tail(todo)
    /\ pc' = IF endswith(Head(todo), EXTENSIONS) THEN "open" ELSE "files"
    /\ UNCHANGED <<script, dirs, files, unreadable, src0, stack, subdir,
                   img_array, augmented_img, i, log>>

\* The files of the directory are exhausted: back to os.walk.
EndOfDir ==
    /\ pc = "files"
    /\ todo = <<>>
    /\ pc' = "walk"
    /\ UNCHANGED <<script, dirs, files, unreadable, src0, stack, subdir, todo,
                   file, img_array, augmented_img, i, log>>

\* Lines 62-78: Image.open raises on a file that is no image.
LoadImage ==
    /\ pc = "open"
    /\ LET image_path == join(subdir, file)
       IN  IF files[image_path].kind = "image"
           THEN /\ img_array' = normalize(files[image_path].img)
                /\ log' = Append(log, Event("open", image_path, NoArray, NoArray))
                /\ pc' = "mkdir"
           ELSE /\ img_array' = img_array
                /\ log' = log \o <<Event("open", image_path, NoArray, NoArray),
                                   Event("raise", image_path, NoArray, NoArray)>>
                /\ pc' = "aborted"
    /\ UNCHANGED <<script, dirs, files, unreadable, src0, stack, subdir, todo,
                   file, augmented_img, i>>

\* Lines 80-81.
MakeLabelDir ==
    /\ pc = "mkdir"
    /\ dirs' = create_dir(label_dir)
    /\ log' = LogCreate(label_dir)
    /\ pc' = "save"
    /\ UNCHANGED <<script, files, unreadable, src0, stack, subdir, todo, file,
                   img_array, augmented_img, i>>

\* Line 84; i is the next value of range(augmentation_factor).
SaveOriginal ==
    /\ pc = "save"
    /\ Save(img_array, NoArray, join(label_dir, file),
            IF 0 < AUGMENTATION_FACTOR THEN "aug" ELSE "files")
    /\ i' = 0
    /\ UNCHANGED <<script, dirs, unreadable, src0, stack, subdir, todo, file,
                   img_array, augmented_img>>

\* Lines 87-97, one iteration.
Augment ==
    /\ pc = "aug"
    /\ \E raw \in RawPixels :
          LET out  == data_augmentation(
                          expand_dims(pipeline_input(img_array, augmented_img, i)), raw)
              cast == astype_uint8(squeeze(out))
          IN  /\ augmented_img' = suppress(cast)
              /\ Save(suppress(cast), cast, join(label_dir, aug_name(i, file)),
                      IF i + 1 < AUGMENTATION_FACTOR THEN "aug" ELSE "files")
    /\ i' = i + 1
    /\ UNCHANGED <<script, dirs, unreadable, src0, stack, subdir, todo, file,
                   img_array>>

\* os.walk is exhausted: the function returns and line 102 prints.
Finish ==
    /\ pc = "walk"
    /\ stack = <<>>
    /\ log' = Append(log, Event("print", output_dir(script), NoArray, NoArray))
    /\ pc' = "done"
    /\ UNCHANGED <<script, dirs, files, unreadable, src0, stack, subdir, todo,
                   file, img_array, augmented_img, i>>

Next ==
    \/ Start
    \/ WalkDir
    \/ NextFile
    \/ EndOfDir
    \/ LoadImage
    \/ MakeLabelDir
    \/ SaveOriginal
    \/ Augment
    \/ Finish

Spec == Init /\ [][Next]_vars

\* ------------------------------------------------------------ properties

OutputRoot == output_dir(script)

\* <repo>: the directory with data_dir = <repo>/data/base_data.
Repo == dirname(dirname(data_dir(script)))

Ops(kinds) == {k \in DOMAIN log : log[k].op \in kinds}

Writes == Ops({"write"})

Opens == Ops({"open"})

AugWrites == {k \in Writes : log[k].pre # NoArray}

\* The open event of the image that event k belongs to.
OpenOf(k) == Max({j \in Opens : j < k})

SourceImages == {p \in DOMAIN src0 : endswith(p, EXTENSIONS)}

OutputFiles == {p \in DOMAIN files : IsUnder(p, OutputRoot) /\ p # OutputRoot}

\* C1: every array written as an image file, original or augmented, is
\* 256 x 256 with exactly 3 channels of uint8, whatever the mode of the input.
C1_WrittenArraysAre256x256x3 ==
    \A k \in Writes :
        /\ log[k].arr.shape = <<IMAGE_SIZE, IMAGE_SIZE, 3>>
        /\ log[k].arr.dtype = "uint8"

\* C2: after a completed run the output tree holds exactly
\* (augmentation_factor + 1) distinct files per processed input image.
C2_FilesPerImage ==
    pc = "done" =>
        Cardinality(OutputFiles) = (AUGMENTATION_FACTOR + 1) * Cardinality(Opens)

\* C3: in every augmented array handed to the writer each channel value is 0
\* or at least 5, and a value that was at least 5 after the uint8 cast is the
\* value written.
C3_NoValueBetween0And5 ==
    \A k \in AugWrites :
        \A c \in DOMAIN log[k].arr.px :
            /\ log[k].arr.px[c] = 0 \/ log[k].arr.px[c] >= 5
            /\ log[k].pre.px[c] >= 5 => log[k].arr.px[c] = log[k].pre.px[c]

C3_Witness ==
    \E k \in AugWrites :
        /\ \E c \in DOMAIN log[k].pre.px : log[k].pre.px[c] \in 1..4
        /\ \E c \in DOMAIN log[k].pre.px : log[k].pre.px[c] >= 5

\* C4: normalisation of an image that is already 256 x 256 RGB returns its
\* pixel array unchanged, and normalising the image of a normalised array
\* gives that array again.
C4_NormalizeIdempotent ==
    pc \in {"mkdir", "save", "aug"} =>
        LET img == files[join(subdir, file)].img
        IN  /\ (img.mode = "RGB" /\ img.size = <<IMAGE_SIZE, IMAGE_SIZE>>)
                    => img_array = np_array(img)
            /\ fromarray_mode(img_array) # "TypeError"
                    => normalize(fromarray(img_array)) = img_array

C4_Witness ==
    /\ pc = "mkdir"
    /\ files[join(subdir, file)].img.mode = "RGB"
    /\ files[join(subdir, file)].img.size = <<IMAGE_SIZE, IMAGE_SIZE>>
    /\ \E k \in Writes : log[k].arr.resampled = 1

\* C5 as stated: the output root is <repo>/data_augmente_data, a sibling of
\* <repo>/data, and every output file is two levels below it.
C5_OutputRootBesideData ==
    \A k \in Writes :
        dirname(dirname(log[k].path)) = join(Repo, <<"data_augmente_data">>)

IsOutputOf(path, root, src) ==
    LET label == join(root, basename(dirname(src)))
    IN  \/ path = join(label, basename(src))
        \/ \E n \in 0..(AUGMENTATION_FACTOR - 1) :
              path = join(label, aug_name(n, basename(src)))

\* C5 amended: the output root is <repo>/data/data_augmente_data, a sibling of
\* base_data inside <repo>/data, and every output file is at
\* <root>/<label>/<image file> or <root>/<label>/aug_<i>_<image file>.
C5_OutputRootInsideData ==
    /\ OutputRoot = join(join(Repo, <<"data">>), <<"data_augmente_data">>)
    /\ \A k \in Writes :
          \E src \in SourceImages : IsOutputOf(log[k].path, OutputRoot, src)

C5_Witness ==
    /\ \E k \in Writes : k \notin AugWrites
    /\ \E k \in AugWrites : TRUE
    /\ Len(script) > 2

\* C6: every file written for the image <dir>/<file> is in
\* output_dir/<basename of dir>, the original as <file> and the copies as
\* aug_<i>_<file> with i below augmentation_factor, and two different source
\* directories never share an output label directory.
C6_MirrorsLabelDirs ==
    /\ \A k \in Writes : IsOutputOf(log[k].path, OutputRoot, log[OpenOf(k)].path)
    /\ \A j, k \in Writes :
          dirname(log[OpenOf(j)].path) # dirname(log[OpenOf(k)].path)
              => dirname(log[j].path) # dirname(log[k].path)

HasAllOutputs(src) ==
    \E o \in Opens :
        /\ log[o].path = src
        /\ \A name \in {basename(src)} \cup
                       {aug_name(n, basename(src)) : n \in 0..(AUGMENTATION_FACTOR - 1)} :
              \E k \in Writes : OpenOf(k) = o /\ basename(log[k].path) = name

\* C7: a failure ends the run where it happens (nothing follows it, nothing is
\* retried, no message), and the completion message is printed once, only
\* after every recognised image of the source tree has all its outputs.
C7_AbortOrComplete ==
    /\ \A k \in Ops({"raise"}) : k = Len(log) /\ pc = "aborted"
    /\ Cardinality(Ops({"print"})) <= 1
    /\ \A k \in Ops({"print"}) :
          /\ k = Len(log)
          /\ \A src \in SourceImages : HasAllOutputs(src)

\* C8: nothing under the source tree is created, overwritten or deleted;
\* every write and directory creation is under output_dir, which is not
\* inside data_dir; the walk never opens a file the run wrote.
C8_InputsUntouched ==
    /\ ~IsUnder(OutputRoot, data_dir(script))
    /\ \A k \in Ops({"mkdir", "write"}) :
          /\ IsUnder(log[k].path, OutputRoot)
          /\ ~IsUnder(log[k].path, data_dir(script))
    /\ \A p \in DOMAIN files \cup DOMAIN src0 :
          IsUnder(p, data_dir(script)) =>
              p \in DOMAIN files /\ p \in DOMAIN src0 /\ files[p] = src0[p]
    /\ \A d \in dirs :
          (IsUnder(d, data_dir(script)) /\ d # data_dir(script)) =>
              \E p \in DOMAIN src0 : IsUnder(p, d)
    /\ \A o \in Opens :
          /\ log[o].path \in DOMAIN src0
          /\ \A k \in Writes : k < o => log[k].path # log[o].path

C8_Witness ==
    /\ pc = "done"
    /\ Cardinality(Opens) = 2
    /\ Cardinality(Writes) = 2 * (AUGMENTATION_FACTOR + 1)

\* C9: per image, the label directory exists before a file is written into
\* it, the original is written first and aug_i before aug_(i+1), each copy is
\* one pass of the pipeline over the normalised original, and all files of an
\* image are written before the next image is opened or the run ends.
C9_StepOrder ==
    /\ \A k \in Writes :
          LET o == OpenOf(k)
              m == IF log[o + 1].op = "mkdir" THEN o + 1 ELSE o
              src == log[o].path
              label == join(OutputRoot, basename(dirname(src)))
          IN  /\ \E j \in Ops({"mkdir"}) : j < k /\ log[j].path = label
              /\ k - m \in 1..(AUGMENTATION_FACTOR + 1)
              /\ k - m = 1 =>
                    /\ log[k].path = join(label, basename(src))
                    /\ log[k].arr = normalize(src0[src].img)
              /\ k - m > 1 =>
                    /\ log[k].path = join(label, aug_name(k - m - 2, basename(src)))
                    /\ log[k].arr.augs = 1
                    /\ log[k].arr.resampled = log[m + 1].arr.resampled
                    /\ log[k].arr.shape = log[m + 1].arr.shape
    /\ \A k \in Ops({"open", "print"}) :
          \A o \in Opens :
              o < k => Cardinality({w \in Writes : OpenOf(w) = o})
                          = AUGMENTATION_FACTOR + 1

C9_Witness ==
    /\ pc = "done"
    /\ Cardinality(Opens) = 2
    /\ \E j, k \in Opens : dirname(log[j].path) = dirname(log[k].path) /\ j # k

Lower(tok) == IF tok = ".JPG" THEN ".jpg" ELSE tok

IsImageFile(p) ==
    /\ Lower(p[Len(p)]) \in EXTENSIONS
    /\ dirname(dirname(p)) = data_dir(script)

\* C10: in a completed run in which every directory could be listed, the
\* files opened are exactly the files at source_dir/<label>/ with extension
\* .jpg, .jpeg or .png in any letter case; each of them has its outputs and
\* no other file is opened.
C10_ExactlyTheImageFiles ==
    (pc = "done" /\ unreadable = {}) =>
        \A p \in DOMAIN src0 :
            /\ IsImageFile(p) => HasAllOutputs(p)
            /\ ~IsImageFile(p) => \A o \in Opens : log[o].path # p

====
